---- MODULE Spec2Model ----
(***************************************************************************)
(* blocs atlas (c/main.c): the run of main from the loaded image list to   *)
(* the emitted metadata: registration into the staging buffer              *)
(* (blocs__add_texture), packing (blocs__pack_atlas), compositing          *)
(* (blocs__generate_atlas, blocs__set_pixels) and blocs__save_json.        *)
(*                                                                         *)
(* C arrays are modelled as sequences: C index k is sequence index k + 1.  *)
(* Byte buffers hold one number 0..255 per byte.                           *)
(***************************************************************************)
EXTENDS Integers, Sequences, FiniteSets, TLC

VARIABLES
    atlas_size,     \* main.c:663  int32_t atlas_size
    atlas_expand,   \* main.c:664  int32_t atlas_expand
    atlas_border,   \* main.c:665  int32_t atlas_border
    files,          \* main.c:748  char* files[num_files], each with what stbi_load makes of it
    names,          \* main.c:668  const char** names (the names of the loaded images)
    images,         \* main.c:669  blocs__image* images (the loaded images, in load order)
    qsort_order,    \* the order in which qsort left the textures, <<>> before the sort
    pc,             \* position of main
    err,            \* the assertion that aborted the run, "" while none has
    i,              \* the loop index of the running for loop
    textures,       \* main.c:670  blocs__texture* textures
    buffer,         \* main.c:659  uint8_t* buffer, the bytes written so far
    buffer_index,   \* main.c:660  uint32_t buffer_index
    spaces,         \* main.c:225  blocs__rect spaces[len], entries 0 .. n-1
    atlas_bmp,      \* main.c:661  blocs__image* atlas_bmp
    json,           \* what blocs__save_json printed
    run,            \* 1 in the first run of the program, 2 in a repeated run
    prev,           \* the textures and atlas the first run ended with
    xy_writes       \* per name_index, how often pack stored to rect.x and rect.y

vars == <<atlas_size, atlas_expand, atlas_border, files, names, images, qsort_order,
          pc, err, i, textures, buffer, buffer_index, spaces, atlas_bmp, json, run,
          prev, xy_writes>>

----------------------------------------------------------------------------
(* Bounds of the model *)

MaxTextures == 3
MaxDim == 2

(* Program constants *)

CHANNELS == 4
MinImages == 3

(* The atlas configurations explored: <<size, expand, border>> *)
Configs ==
    { <<1, 0, 0>>, <<2, 0, 1>>, <<4, 0, 0>>, <<4, 0, 1>>, <<6, 1, 0>>, <<7, 1, 0>> }

----------------------------------------------------------------------------
(* Helpers *)

Max(a, b) == IF a > b THEN a ELSE b

\* the element at C index k of a C array held as a sequence
At(arr, k) == arr[k + 1]

Permutations1(n) ==
    { p \in [1..n -> 1..n] : \A a, b \in 1..n : a # b => p[a] # p[b] }

----------------------------------------------------------------------------
(* Source images *)

\* The pixel bytes of the k-th source image: every byte is nonzero and, for
\* the small images, differs from every other byte of every image.
RampData(k, w, h) ==
    [b \in 1..(w * h * CHANNELS) |-> 1 + ((k * 64 + (b - 1)) % 255)]

SolidData(w, h, rgba) ==
    [b \in 1..(w * h * CHANNELS) |-> rgba[((b - 1) % CHANNELS) + 1]]

RampImage(k, w, h) == [w |-> w, h |-> h, data |-> RampData(k, w, h)]

Shapes == (1..MaxDim) \X (1..MaxDim)

ShapeLists == UNION { [1..len -> Shapes] : len \in 1..MaxTextures }

ImagesOf(shapes) ==
    [k \in 1..Len(shapes) |-> RampImage(k, shapes[k][1], shapes[k][2])]

\* the names of the files of the input directory, in the order of the listing
file_names == <<"image001", "image002", "image003", "image004", "image005", "image006">>

Scenario(size, expand, border, imgs) ==
    [size |-> size, expand |-> expand, border |-> border, images |-> imgs]

\* the runs the documentation walks through, at their own sizes
Scenarios ==
    { Scenario(32, 0, 0, <<RampImage(1, 8, 16), RampImage(2, 16, 8), RampImage(3, 8, 8)>>),
      Scenario(13, 2, 0, <<[w |-> 4, h |-> 4, data |-> SolidData(4, 4, <<255, 0, 0, 255>>)],
                           RampImage(2, 1, 1), RampImage(3, 1, 1)>>),
      Scenario(10, 0, 0, <<RampImage(1, 6, 6), RampImage(2, 6, 6), RampImage(3, 1, 1)>>),
      Scenario(10, 0, 1, <<RampImage(1, 10, 1), RampImage(2, 9, 1), RampImage(3, 1, 1)>>),
      \* a margin and a border together
      Scenario(9, 1, 1, <<RampImage(1, 1, 1), RampImage(2, 1, 1), RampImage(3, 1, 1)>>),
      \* a texture exactly as wide as the atlas
      Scenario(4, 0, 0, <<RampImage(1, 4, 1), RampImage(2, 1, 1), RampImage(3, 1, 1)>>),
      \* three textures of three heights, each strictly smaller than its space
      Scenario(7, 0, 0, <<RampImage(1, 3, 3), RampImage(2, 2, 2), RampImage(3, 1, 1)>>),
      \* options that atoi reads from the command line without any check
      Scenario(0, 0, 0, <<RampImage(1, 1, 1), RampImage(2, 1, 1), RampImage(3, 1, 1)>>),
      Scenario(4, 0, -1, <<RampImage(1, 2, 2), RampImage(2, 2, 2), RampImage(3, 2, 2)>>),
      Scenario(4, -1, 0, <<RampImage(1, 3, 3), RampImage(2, 3, 3), RampImage(3, 3, 3)>>) }

NULL == <<>>

\* what stbi_load leaves of a file it cannot decode (main.c:108)
Undecodable == [w |-> 0, h |-> 0, data |-> NULL]

\* directories of MaxTextures + 1 files of which any may fail to decode
DecodeScenarios ==
    { Scenario(4, 0, 0, [k \in 1..(MaxTextures + 1) |->
                           IF k \in failed THEN Undecodable ELSE RampImage(k, 1, 1)]) :
        failed \in SUBSET (1..(MaxTextures + 1)) }

Inputs ==
    { Scenario(c[1], c[2], c[3], ImagesOf(shapes)) : c \in Configs, shapes \in ShapeLists }
        \cup Scenarios \cup DecodeScenarios

\* the listing of the input directory: the k-th file and what it decodes to
FilesOf(imgs) == [k \in 1..Len(imgs) |-> [name |-> file_names[k], image |-> imgs[k]]]

----------------------------------------------------------------------------
(* Registration: blocs__add_texture *)

Rect(x, y, w, h) == [x |-> x, y |-> y, w |-> w, h |-> h]

\* a registration that does not advance buffer_index
AddTextureInPlace(texs, index, buf, buf_index, image, name_index) ==
    LET texture == [rect |-> Rect(0, 0, image.w, image.h),
                    name_index |-> name_index,
                    buffer_index |-> buf_index]
        buffer_length == image.w * image.h * CHANNELS
    IN  [textures |-> [k \in 1..Max(Len(texs), index + 1) |->
                          IF k = index + 1 THEN texture ELSE texs[k]],
         buffer |-> [b \in 1..Max(Len(buf), buf_index + buffer_length) |->
                          IF b > buf_index /\ b <= buf_index + buffer_length
                          THEN image.data[b - buf_index]
                          ELSE buf[b]],
         buffer_index |-> buf_index]

\* main.c:178-191. The texture is stored at `index`, the image's bytes are
\* copied to buffer + buffer_index and buffer_index advances by their number.
blocs__add_texture(texs, index, buf, buf_index, image, name_index) ==
    LET texture == [rect |-> Rect(0, 0, image.w, image.h),
                    name_index |-> name_index,
                    buffer_index |-> buf_index]
        buffer_length == image.w * image.h * CHANNELS
    IN  [textures |-> [k \in 1..Max(Len(texs), index + 1) |->
                          IF k = index + 1 THEN texture ELSE texs[k]],
         buffer |-> [b \in 1..Max(Len(buf), buf_index + buffer_length) |->
                          IF b > buf_index /\ b <= buf_index + buffer_length
                          THEN image.data[b - buf_index]
                          ELSE buf[b]],
         buffer_index |-> buf_index + buffer_length]

----------------------------------------------------------------------------
(* Sorting: qsort with blocs__compare_area *)

\* a comparison that sorts shortest first
CompareShortestFirst(a, b) == a.rect.h - b.rect.h

\* main.c:159-164
blocs__compare_area(a, b) == b.rect.h - a.rect.h

\* The orders qsort may leave `base` in: every pair in the result compares
\* <= 0; the order of elements that compare equal is unspecified.
QsortOutcomes(base) ==
    { p \in Permutations1(Len(base)) :
        \A a, b \in 1..Len(base) :
            a < b => blocs__compare_area(base[p[a]], base[p[b]]) <= 0 }

\* a sort that moves the rects and leaves name_index and buffer_index in place
QsortRectsOnly(base, order) ==
    [k \in 1..Len(base) |-> [base[k] EXCEPT !.rect = base[order[k]].rect]]

\* main.c:231: the array with its elements in the order qsort chose
qsort(base, order) == [k \in 1..Len(base) |-> base[order[k]]]

\* qsort is a function of the array and the comparisons: the same build
\* leaves the same array in the same order every time it runs
QsortChoices(base, earlier) ==
    IF earlier = <<>> THEN QsortOutcomes(base) ELSE {earlier}

----------------------------------------------------------------------------
(* The run of main *)

num_images == Len(images)

NoAtlas == [w |-> 0, h |-> 0, data |-> <<>>]
NoJson == [w |-> 0, h |-> 0, n |-> 0, textures |-> <<>>]
NoPrev == [textures |-> <<>>, atlas |-> NoAtlas, json |-> NoJson]

Start(input) ==
    /\ atlas_size = input.size
    /\ atlas_expand = input.expand
    /\ atlas_border = input.border
    /\ files = FilesOf(input.images)
    /\ names = <<>>
    /\ images = <<>>
    /\ xy_writes = <<>>
    /\ qsort_order = <<>>
    /\ pc = "scan"
    /\ err = ""
    /\ i = 0
    /\ textures = <<>>
    /\ buffer = <<>>
    /\ buffer_index = 0
    /\ spaces = <<>>
    /\ atlas_bmp = NoAtlas
    /\ json = NoJson

Init ==
    \E input \in Inputs :
        /\ Start(input)
        /\ run = 1
        /\ prev = NoPrev

\* blocs__assert (main.c:67-77): a false condition prints the message and aborts
Abort(message) ==
    /\ pc' = "aborted"
    /\ err' = message

\* main.c:105-110: whether the file decoded
blocs__load_from_path(file) == file.image.data # NULL

\* a loop that gives up at the first file that does not decode
RECURSIVE LoadLoopUntilFailure(_, _, _)
LoadLoopUntilFailure(fs, k, loaded) ==
    IF ~(k < Len(fs)) THEN loaded
    ELSE IF blocs__load_from_path(At(fs, k))
    THEN LoadLoopUntilFailure(fs, k + 1,
                              [names |-> Append(loaded.names, At(fs, k).name),
                               images |-> Append(loaded.images, At(fs, k).image)])
    ELSE loaded

\* main.c:765-784: the loop over the files from index k on; a file that
\* decodes is stored at index num_images of names and images, one that does
\* not is skipped
RECURSIVE LoadLoop(_, _, _)
LoadLoop(fs, k, loaded) ==
    IF ~(k < Len(fs)) THEN loaded
    ELSE IF blocs__load_from_path(At(fs, k))
    THEN LoadLoop(fs, k + 1, [names |-> Append(loaded.names, At(fs, k).name),
                              images |-> Append(loaded.images, At(fs, k).image)])
    ELSE LoadLoop(fs, k + 1, loaded)

\* main.c:745-785
LoadImages ==
    /\ pc = "scan"
    /\ LET loaded == LoadLoop(files, 0, [names |-> <<>>, images |-> <<>>])
       IN  /\ names' = loaded.names
           /\ images' = loaded.images
    /\ pc' = "load"
    /\ UNCHANGED <<atlas_size, atlas_expand, atlas_border, files, qsort_order, err, i,
                   textures, buffer, buffer_index, spaces, atlas_bmp, json, run, prev,
                   xy_writes>>

\* main.c:819
CheckImages ==
    /\ pc = "load"
    /\ IF num_images > MinImages - 1
       THEN /\ pc' = "register"
            /\ err' = err
       ELSE Abort("not enough images to pack")
    /\ UNCHANGED <<atlas_size, atlas_expand, atlas_border, files, names, images,
                   qsort_order, i, textures, buffer, buffer_index, spaces, atlas_bmp,
                   json, run, prev, xy_writes>>

\* main.c:825: the staging buffer holds atlas_size * atlas_size * CHANNELS bytes
BufferCapacity == atlas_size * atlas_size * CHANNELS

\* main.c:828-839, one iteration of the loop
RegisterTexture ==
    /\ pc = "register"
    /\ i < num_images
    /\ LET image == At(images, i)
       IN  IF ~(image.w <= atlas_size /\ image.h <= atlas_size)
           THEN /\ Abort("pixel data too large for atlas")
                /\ UNCHANGED <<i, textures, buffer, buffer_index, xy_writes>>
           ELSE IF image.data = NULL
           THEN /\ Abort("could not read texture data")
                /\ UNCHANGED <<i, textures, buffer, buffer_index, xy_writes>>
           ELSE LET r == blocs__add_texture(textures, i, buffer, buffer_index, image, i)
                IN  /\ textures' = r.textures
                    /\ buffer' = r.buffer
                    /\ buffer_index' = r.buffer_index
                    \* main.c:184: x and y are initialised, pack has stored nothing
                    /\ xy_writes' = Append(xy_writes, 0)
                    /\ i' = i + 1
                    \* a memcpy past the end of the staging buffer is undefined:
                    \* it lands outside the buffer or the process faults
                    /\ pc' \in { IF i + 1 < num_images THEN "register" ELSE "pack" }
                              \cup (IF r.buffer_index > BufferCapacity
                                    THEN {"crashed"} ELSE {})
                    /\ err' = err
    /\ UNCHANGED <<atlas_size, atlas_expand, atlas_border, files, names, images,
                   qsort_order, spaces, atlas_bmp, json, run, prev>>

----------------------------------------------------------------------------
(* Packing: blocs__pack_atlas *)

\* a padding that leaves the margins out
PaddingBorderOnly(expand, border) == border

\* a padding that leaves the border out
PaddingExpandOnly(expand, border) == expand * 2

\* main.c:208
Padding(expand, border) == expand * 2 + border

\* main.c:209-215: the summed padded area and the largest padded width and height
RECURSIVE Measure(_, _, _)
Measure(texs, len, padding) ==
    IF len = 0
    THEN [area |-> 0, max_w |-> 0, max_h |-> 0]
    ELSE LET m == Measure(texs, len - 1, padding)
             rect == At(texs, len - 1).rect
         IN  [area |-> m.area + (rect.w + padding) * (rect.h + padding),
              max_w |-> Max(m.max_w, rect.w + padding),
              max_h |-> Max(m.max_h, rect.h + padding)]

\* a size check that also rejects a texture exactly as large as the atlas
SizeCheckStrict(m, size) == m.max_w < size /\ m.max_h < size

\* main.c:218: max_w <= size && max_h <= size
SizeCheck(m, size) == m.max_w <= size /\ m.max_h <= size

\* an area check against the whole atlas
AreaCheckWhole(m, size) == m.area * 100 <= size * size * 100

\* main.c:216, 221: area <= size * size * 0.85, with both sides times 100
AreaCheck(m, size) == m.area * 100 <= size * size * 85

\* main.c:203-231: the two assertions, the first free space and the sort
PackBegin ==
    /\ pc = "pack"
    /\ LET len == num_images
           padding == Padding(atlas_expand, atlas_border)
           m == Measure(textures, len, padding)
       IN  IF ~SizeCheck(m, atlas_size)
           THEN /\ Abort("max size needed larger than atlas size")
                /\ UNCHANGED <<textures, spaces, i, qsort_order>>
           ELSE IF ~AreaCheck(m, atlas_size)
           THEN /\ Abort("total area needed cannot fit in atlas size")
                /\ UNCHANGED <<textures, spaces, i, qsort_order>>
           ELSE \E order \in QsortChoices(textures, qsort_order) :
                    /\ spaces' = <<Rect(0, 0, atlas_size, atlas_size)>>
                    /\ textures' = qsort(textures, order)
                    /\ qsort_order' = order
                    /\ i' = 0
                    /\ pc' = "place"
                    /\ err' = err
    /\ UNCHANGED <<atlas_size, atlas_expand, atlas_border, files, names, images,
                   buffer, buffer_index, atlas_bmp, json, run, prev, xy_writes>>

\* a test that compares the areas instead of the sides
FitsByArea(w, h, space) == ~(w * h > space.w * space.h)

\* main.c:250: the image is not too large for the space
Fits(w, h, space) == ~(w > space.w \/ h > space.h)

\* a scan that takes the first space of the list that fits
ScanFromFront(spcs, j, w, h) ==
    IF \E k \in 0..j : Fits(w, h, At(spcs, k))
    THEN CHOOSE k \in 0..j :
             /\ Fits(w, h, At(spcs, k))
             /\ \A m \in 0..j : Fits(w, h, At(spcs, m)) => k <= m
    ELSE -1

\* main.c:242-251: the scan from index n - 1 down to 0; the C index of the
\* first space that fits, -1 when the loop ends without one
RECURSIVE Scan(_, _, _, _)
Scan(spcs, j, w, h) ==
    IF j < 0 THEN -1
    ELSE IF Fits(w, h, At(spcs, j)) THEN j
    ELSE Scan(spcs, j - 1, w, h)

SetAt(arr, k, v) == [arr EXCEPT ![k + 1] = v]

\* an update whose split leaves the new space as tall as the old one
UpdateSpacesTallSplit(spcs, j, w, h) ==
    LET space == At(spcs, j)
        n == Len(spcs)
    IN  IF w = space.w /\ h = space.h
        THEN LET last == At(spcs, n - 1)
                 cut == SubSeq(spcs, 1, n - 1)
             IN  IF j < n - 1 THEN SetAt(cut, j, last) ELSE cut
        ELSE IF h = space.h
        THEN SetAt(spcs, j, Rect(space.x + w, space.y, space.w - w, space.h))
        ELSE IF w = space.w
        THEN SetAt(spcs, j, Rect(space.x, space.y + h, space.w, space.h - h))
        ELSE Append(SetAt(spcs, j, Rect(space.x, space.y + h, space.w, space.h - h)),
                    Rect(space.x + w, space.y, space.w - w, space.h))

\* an update whose split keeps the box to the right in place and appends the strip below
UpdateSpacesSplitSwapped(spcs, j, w, h) ==
    LET space == At(spcs, j)
        n == Len(spcs)
    IN  IF w = space.w /\ h = space.h
        THEN LET last == At(spcs, n - 1)
                 cut == SubSeq(spcs, 1, n - 1)
             IN  IF j < n - 1 THEN SetAt(cut, j, last) ELSE cut
        ELSE IF h = space.h
        THEN SetAt(spcs, j, Rect(space.x + w, space.y, space.w - w, space.h))
        ELSE IF w = space.w
        THEN SetAt(spcs, j, Rect(space.x, space.y + h, space.w, space.h - h))
        ELSE Append(SetAt(spcs, j, Rect(space.x + w, space.y, space.w - w, h)),
                    Rect(space.x, space.y + h, space.w, space.h - h))

\* an update whose exact fit drops the last entry without moving it into place
UpdateSpacesDropLast(spcs, j, w, h) ==
    LET space == At(spcs, j)
        n == Len(spcs)
    IN  IF w = space.w /\ h = space.h
        THEN SubSeq(spcs, 1, n - 1)
        ELSE IF h = space.h
        THEN SetAt(spcs, j, Rect(space.x + w, space.y, space.w - w, space.h))
        ELSE IF w = space.w
        THEN SetAt(spcs, j, Rect(space.x, space.y + h, space.w, space.h - h))
        ELSE Append(SetAt(spcs, j, Rect(space.x, space.y + h, space.w, space.h - h)),
                    Rect(space.x + w, space.y, space.w - w, h))

\* an update whose height match moves the space down instead of right
UpdateSpacesMatchDown(spcs, j, w, h) ==
    LET space == At(spcs, j)
        n == Len(spcs)
    IN  IF w = space.w /\ h = space.h
        THEN LET last == At(spcs, n - 1)
                 cut == SubSeq(spcs, 1, n - 1)
             IN  IF j < n - 1 THEN SetAt(cut, j, last) ELSE cut
        ELSE IF h = space.h
        THEN SetAt(spcs, j, Rect(space.x, space.y + h, space.w - w, space.h))
        ELSE IF w = space.w
        THEN SetAt(spcs, j, Rect(space.x, space.y + h, space.w, space.h - h))
        ELSE Append(SetAt(spcs, j, Rect(space.x, space.y + h, space.w, space.h - h)),
                    Rect(space.x + w, space.y, space.w - w, h))

\* an update whose width match moves the space down and keeps its height
UpdateSpacesKeepHeight(spcs, j, w, h) ==
    LET space == At(spcs, j)
        n == Len(spcs)
    IN  IF w = space.w /\ h = space.h
        THEN LET last == At(spcs, n - 1)
                 cut == SubSeq(spcs, 1, n - 1)
             IN  IF j < n - 1 THEN SetAt(cut, j, last) ELSE cut
        ELSE IF h = space.h
        THEN SetAt(spcs, j, Rect(space.x + w, space.y, space.w - w, space.h))
        ELSE IF w = space.w
        THEN SetAt(spcs, j, Rect(space.x, space.y + h, space.w, space.h))
        ELSE Append(SetAt(spcs, j, Rect(space.x, space.y + h, space.w, space.h - h)),
                    Rect(space.x + w, space.y, space.w - w, h))

\* main.c:262-314: the free spaces after a w x h box took the top-left of spaces[j]
UpdateSpaces(spcs, j, w, h) ==
    LET space == At(spcs, j)
        n == Len(spcs)
    IN  IF w = space.w /\ h = space.h
        THEN \* main.c:270-272: last = spaces[--n]; if (j < n) spaces[j] = last
             LET last == At(spcs, n - 1)
                 cut == SubSeq(spcs, 1, n - 1)
             IN  IF j < n - 1 THEN SetAt(cut, j, last) ELSE cut
        ELSE IF h = space.h
        THEN \* main.c:281-282
             SetAt(spcs, j, Rect(space.x + w, space.y, space.w - w, space.h))
        ELSE IF w = space.w
        THEN \* main.c:293-294
             SetAt(spcs, j, Rect(space.x, space.y + h, space.w, space.h - h))
        ELSE \* main.c:305-313
             LET new_space == Rect(space.x + w, space.y, space.w - w, h)
             IN  Append(SetAt(spcs, j, Rect(space.x, space.y + h, space.w, space.h - h)),
                        new_space)

\* a placement at the corner of the space, without the margin
PlaceAtSpace(texture, space, expand) ==
    [texture EXCEPT !.rect.x = space.x, !.rect.y = space.y]

\* main.c:259-260
Place(texture, space, expand) ==
    [texture EXCEPT !.rect.x = space.x + expand, !.rect.y = space.y + expand]

\* an outer loop that scans again for a texture that found no space
PlaceTextureRetry ==
    /\ pc = "place"
    /\ i < num_images
    /\ LET rect == At(textures, i).rect
           padding == Padding(atlas_expand, atlas_border)
           w == rect.w + padding
           h == rect.h + padding
           j == Scan(spaces, Len(spaces) - 1, w, h)
       IN  IF ~(rect.w <= atlas_size /\ rect.h <= atlas_size)
           THEN /\ Abort("texture larger than maximum size")
                /\ UNCHANGED <<textures, spaces, i, xy_writes>>
           ELSE /\ IF j >= 0
                   THEN /\ textures' = SetAt(textures, i,
                                             Place(At(textures, i), At(spaces, j), atlas_expand))
                        /\ spaces' = UpdateSpaces(spaces, j, w, h)
                        /\ xy_writes' = [xy_writes EXCEPT
                                            ![At(textures, i).name_index + 1] = @ + 1]
                   ELSE UNCHANGED <<textures, spaces, xy_writes>>
                /\ i' = IF j >= 0 THEN i + 1 ELSE i
                /\ pc' \in { IF i' < num_images THEN "place" ELSE "generate" }
                          \cup (IF Len(spaces') > num_images THEN {"crashed"} ELSE {})
                /\ err' = err
    /\ UNCHANGED <<atlas_size, atlas_expand, atlas_border, files, names, images,
                   qsort_order, buffer, buffer_index, atlas_bmp, json, run, prev>>

\* main.c:233-318, one iteration of the outer loop
PlaceTexture ==
    /\ pc = "place"
    /\ i < num_images
    /\ LET rect == At(textures, i).rect
           padding == Padding(atlas_expand, atlas_border)
           w == rect.w + padding
           h == rect.h + padding
           j == Scan(spaces, Len(spaces) - 1, w, h)
       IN  IF ~(rect.w <= atlas_size /\ rect.h <= atlas_size)
           THEN /\ Abort("texture larger than maximum size")
                /\ UNCHANGED <<textures, spaces, i, xy_writes>>
           ELSE /\ IF j >= 0
                   THEN /\ textures' = SetAt(textures, i,
                                             Place(At(textures, i), At(spaces, j), atlas_expand))
                        /\ spaces' = UpdateSpaces(spaces, j, w, h)
                        /\ xy_writes' = [xy_writes EXCEPT
                                            ![At(textures, i).name_index + 1] = @ + 1]
                   ELSE \* the scan ended without a break: nothing is written
                        UNCHANGED <<textures, spaces, xy_writes>>
                /\ i' = i + 1
                \* a store to spaces[len] is past the end of the array and undefined:
                \* it lands outside the array or the process faults
                /\ pc' \in { IF i + 1 < num_images THEN "place" ELSE "generate" }
                          \cup (IF Len(spaces') > num_images THEN {"crashed"} ELSE {})
                /\ err' = err
    /\ UNCHANGED <<atlas_size, atlas_expand, atlas_border, files, names, images,
                   qsort_order, buffer, buffer_index, atlas_bmp, json, run, prev>>

----------------------------------------------------------------------------
(* Compositing: blocs__clear_pixels, blocs__set_pixels, blocs__generate_atlas *)

\* what malloc may leave in a byte it returns
Garbage == {0, 170}

\* an allocation that is never cleared
AllocPixels(w, h, garbage) ==
    [w |-> w, h |-> h, data |-> [d \in 1..(w * h * CHANNELS) |-> garbage]]

\* main.c:129-135: malloc, then memset to 0
blocs__clear_pixels(w, h, garbage) ==
    [w |-> w, h |-> h, data |-> [d \in 1..(w * h * CHANNELS) |-> 0]]

\* the byte at C index k of the staging buffer; a byte never written is garbage
BufferByte(buf, k, garbage) ==
    IF k >= 0 /\ k < Len(buf) THEN At(buf, k) ELSE garbage

\* a clamp at the near edge only
ClampLow(x, w) == IF x < 0 THEN 0 ELSE x

\* main.c:371-376: the source coordinate of a destination offset, both in bytes
Clamp(x, w) ==
    IF x < 0 THEN 0
    ELSE IF x > (w - 1) * CHANNELS THEN (w - 1) * CHANNELS
    ELSE x

\* main.c:378-381: the destination and source byte indices of offset (x, y), channel c
DstIndex(rect, x, y, c, atlas_w) ==
    rect.x * CHANNELS + x + (rect.y * CHANNELS + y) * atlas_w + c

SrcIndex(rect, x, y, c) == Clamp(x, rect.w) + Clamp(y, rect.h) * rect.w + c

\* dst_buffer[index] = value: a store whose index is outside the atlas does
\* not land in it and is recorded in `oob`
Store(st, index, value) ==
    IF index >= 0 /\ index < Len(st.data)
    THEN [st EXCEPT !.data[index + 1] = value]
    ELSE [st EXCEPT !.oob = TRUE]

\* main.c:378-381: the four stores of offset (x, y)
StorePixel(st, atlas_w, buf, texture, x, y, garbage) ==
    LET rect == texture.rect
        src(c) == BufferByte(buf, texture.buffer_index + SrcIndex(rect, x, y, c), garbage)
        s0 == Store(st, DstIndex(rect, x, y, 0, atlas_w), src(0))
        s1 == Store(s0, DstIndex(rect, x, y, 1, atlas_w), src(1))
        s2 == Store(s1, DstIndex(rect, x, y, 2, atlas_w), src(2))
    IN  Store(s2, DstIndex(rect, x, y, 3, atlas_w), src(3))

\* main.c:369-382: the loop over x of row y, from x in steps of CHANNELS.
\* An aborted process runs no further iteration (the test also makes TLC
\* evaluate st before it goes on, which keeps the evaluation shallow).
RECURSIVE ExpandRow(_, _, _, _, _, _, _, _)
ExpandRow(st, x, y, atlas_w, buf, texture, expand, garbage) ==
    IF st.failed \/ ~(x < (texture.rect.w + expand) * CHANNELS) THEN st
    ELSE ExpandRow(StorePixel(st, atlas_w, buf, texture, x, y, garbage),
                   x + CHANNELS, y, atlas_w, buf, texture, expand, garbage)

\* main.c:367-383: the loop over y, from y in steps of CHANNELS; every row
\* starts at x = -expand * CHANNELS
RECURSIVE ExpandLoop(_, _, _, _, _, _, _)
ExpandLoop(st, y, atlas_w, buf, texture, expand, garbage) ==
    IF st.failed \/ ~(y < (texture.rect.h + expand) * CHANNELS) THEN st
    ELSE ExpandLoop(ExpandRow(st, -expand * CHANNELS, y, atlas_w, buf, texture,
                              expand, garbage),
                    y + CHANNELS, atlas_w, buf, texture, expand, garbage)

\* an assertion that keeps the pixels off the last column and the last row
SetPixelsCheckStrict(image_w, image_h, dst) ==
    dst.x + dst.w < image_w /\ dst.y + dst.h < image_h

\* main.c:330: dst.x + dst.w <= image->w && dst.y + dst.h <= image->h
SetPixelsCheck(image_w, image_h, dst) ==
    dst.x + dst.w <= image_w /\ dst.y + dst.h <= image_h

\* memcpy(dst + to, src + from, count): the bytes that fall outside the
\* atlas do not land in it and are recorded in `oob`
Memcpy(st, to, buf, from, count, garbage) ==
    LET n == Len(st.data)
        lo == Max(to, 0)
        hi == IF to + count < n THEN to + count ELSE n
        bytes == [b \in 1..(hi - lo) |-> BufferByte(buf, from + (lo - to) + (b - 1), garbage)]
    IN  IF count <= 0 THEN st
        ELSE IF lo >= hi THEN [st EXCEPT !.oob = TRUE]
        ELSE [data |-> SubSeq(st.data, 1, lo) \o bytes \o SubSeq(st.data, hi + 1, n),
              oob |-> st.oob \/ to < 0 \/ to + count > n,
              failed |-> st.failed]

\* main.c:334-343: one memcpy of dst.w pixels per row
RECURSIVE SetPixelsLoop(_, _, _, _, _, _, _)
SetPixelsLoop(st, y, image_w, buf, base, dst, garbage) ==
    LET from == y * dst.w
        to == dst.x + (dst.y + y) * image_w
    IN  IF st.failed \/ ~(y < dst.h) THEN st
        ELSE SetPixelsLoop(Memcpy(st, to * CHANNELS, buf, base + from * CHANNELS,
                                  dst.w * CHANNELS, garbage),
                           y + 1, image_w, buf, base, dst, garbage)

\* main.c:328-344: the assertion, then the rows
blocs__set_pixels(st, image_w, image_h, buf, base, dst, garbage) ==
    IF ~SetPixelsCheck(image_w, image_h, dst)
    THEN [st EXCEPT !.failed = TRUE]
    ELSE SetPixelsLoop(st, 0, image_w, buf, base, dst, garbage)

\* main.c:356-388: the textures 0 .. len-1 blitted in order onto the atlas
\* bytes st.data; `failed` when the assertion of blocs__set_pixels aborted the
\* loop, `oob` when a store or a memcpy went outside the atlas
RECURSIVE blocs__generate_atlas(_, _, _, _, _, _, _, _)
blocs__generate_atlas(texs, len, buf, st, atlas_w, atlas_h, expand, garbage) ==
    IF len = 0 THEN st
    ELSE LET g == blocs__generate_atlas(texs, len - 1, buf, st, atlas_w, atlas_h,
                                        expand, garbage)
             texture == At(texs, len - 1)
         IN  IF g.failed THEN g
             ELSE IF expand > 0
             THEN ExpandLoop(g, -expand * CHANNELS, atlas_w, buf, texture, expand, garbage)
             ELSE blocs__set_pixels(g, atlas_w, atlas_h, buf, texture.buffer_index,
                                    texture.rect, garbage)

\* main.c:857-865
GenerateAtlas ==
    /\ pc = "generate"
    /\ \E garbage \in Garbage :
         LET cleared == blocs__clear_pixels(atlas_size, atlas_size, garbage)
             g == blocs__generate_atlas(textures, num_images, buffer,
                     [data |-> cleared.data, oob |-> FALSE, failed |-> FALSE],
                     cleared.w, cleared.h, atlas_expand, garbage)
         IN  /\ atlas_bmp' = [cleared EXCEPT !.data = g.data]
             /\ IF g.failed
                THEN Abort("new pixels cannot be larger than image")
                ELSE \* a store outside the atlas is undefined: it lands outside
                     \* the atlas or the process faults
                     /\ pc' \in {"save"} \cup (IF g.oob THEN {"crashed"} ELSE {})
                     /\ err' = err
    /\ UNCHANGED <<atlas_size, atlas_expand, atlas_border, files, names, images,
                   qsort_order, i, textures, buffer, buffer_index, spaces, json, run,
                   prev, xy_writes>>

----------------------------------------------------------------------------
(* Metadata: blocs__save_json *)

\* metadata whose entries give the height for the width
SaveJsonTransposed(atlas, texs, len, nms) ==
    [w |-> atlas.w,
     h |-> atlas.h,
     n |-> len,
     textures |-> [k \in 1..len |->
                     [n |-> At(nms, texs[k].name_index),
                      x |-> texs[k].rect.x,
                      y |-> texs[k].rect.y,
                      w |-> texs[k].rect.h,
                      h |-> texs[k].rect.w]]]

\* main.c:390-416: w, h, n and one entry per texture, in the order of the list
blocs__save_json(atlas, texs, len, nms) ==
    [w |-> atlas.w,
     h |-> atlas.h,
     n |-> len,
     textures |-> [k \in 1..len |->
                     [n |-> At(nms, texs[k].name_index),
                      x |-> texs[k].rect.x,
                      y |-> texs[k].rect.y,
                      w |-> texs[k].rect.w,
                      h |-> texs[k].rect.h]]]

\* main.c:896-912
SaveJson ==
    /\ pc = "save"
    /\ json' = blocs__save_json(atlas_bmp, textures, num_images, names)
    /\ pc' = "done"
    /\ UNCHANGED <<atlas_size, atlas_expand, atlas_border, files, names, images,
                   qsort_order, err, i, textures, buffer, buffer_index, spaces,
                   atlas_bmp, run, prev, xy_writes>>

----------------------------------------------------------------------------
(* Specifications *)

Next ==
    \/ LoadImages
    \/ CheckImages
    \/ RegisterTexture
    \/ PackBegin
    \/ PlaceTexture
    \/ GenerateAtlas
    \/ SaveJson

Spec == Init /\ [][Next]_vars

\* The program is started again on the same images with the same options,
\* by the same build (main.c:672).
Rerun ==
    /\ pc = "done"
    /\ run = 1
    /\ run' = 2
    /\ prev' = [textures |-> textures, atlas |-> atlas_bmp, json |-> json]
    /\ pc' = "scan"
    /\ err' = ""
    /\ i' = 0
    /\ textures' = <<>>
    /\ buffer' = <<>>
    /\ buffer_index' = 0
    /\ spaces' = <<>>
    /\ atlas_bmp' = NoAtlas
    /\ json' = NoJson
    /\ names' = <<>>
    /\ images' = <<>>
    /\ xy_writes' = <<>>
    /\ UNCHANGED <<atlas_size, atlas_expand, atlas_border, files, qsort_order>>

NextRuns == Next \/ Rerun

SpecRuns == Init /\ [][NextRuns]_vars

\* pack runs on its own: a step of blocs__pack_atlas that can be taken is taken
SpecLive == Init /\ [][Next]_vars /\ WF_vars(PackBegin) /\ WF_vars(PlaceTexture)

----------------------------------------------------------------------------
(* Vocabulary of the properties *)

\* blocs__pack_atlas returned to main: every texture went through the loop
Packed == pc \in {"generate", "save", "done"}

\* blocs__generate_atlas returned to main
Composited == pc \in {"save", "done"}

padding == Padding(atlas_expand, atlas_border)

Box(x0, y0, x1, y1) == [x0 |-> x0, y0 |-> y0, x1 |-> x1, y1 |-> y1]

\* the padded footprint of a texture: [x-expand, x-expand+w+padding) likewise y
Footprint(t) ==
    Box(t.rect.x - atlas_expand, t.rect.y - atlas_expand,
        t.rect.x - atlas_expand + t.rect.w + padding,
        t.rect.y - atlas_expand + t.rect.h + padding)

\* the region the compositor writes: [x-expand, x+w+expand) likewise y
WriteRegion(t) ==
    Box(t.rect.x - atlas_expand, t.rect.y - atlas_expand,
        t.rect.x + t.rect.w + atlas_expand, t.rect.y + t.rect.h + atlas_expand)

Disjoint(p, q) ==
    p.x1 <= q.x0 \/ q.x1 <= p.x0 \/ p.y1 <= q.y0 \/ q.y1 <= p.y0

InAtlas(p) ==
    p.x0 >= 0 /\ p.y0 >= 0 /\ p.x1 <= atlas_size /\ p.y1 <= atlas_size

TextureIndices == 1..Len(textures)

\* the scan of the texture about to be placed finds no space
NoFit ==
    /\ pc = "place"
    /\ i < num_images
    /\ \A s \in 1..Len(spaces) :
          At(textures, i).rect.w + padding > spaces[s].w
              \/ At(textures, i).rect.h + padding > spaces[s].h

\* the byte of channel c of the atlas pixel (x, y)
AtlasByte(x, y, c) == atlas_bmp.data[(y * atlas_bmp.w + x) * CHANNELS + c + 1]

\* the byte of channel c of the pixel (x, y) of the texture's source image
SourceByte(t, x, y, c) == buffer[t.buffer_index + (y * t.rect.w + x) * CHANNELS + c + 1]

ClampTo(v, lo, hi) == IF v < lo THEN lo ELSE IF v > hi THEN hi ELSE v

----------------------------------------------------------------------------
(* C1 *)

\* C1: after pack returned for a list that passed both pre-checks, the padded
\* footprints of every two distinct textures do not intersect.
NoOverlap ==
    Packed =>
        \A a, b \in TextureIndices :
            a # b => Disjoint(Footprint(textures[a]), Footprint(textures[b]))

----------------------------------------------------------------------------
(* C2 *)

----------------------------------------------------------------------------
(* C3 *)

\* C3: when the scan finds no free space for a texture, pack fails: the run
\* aborts and neither goes on to the next texture nor to the compositor.
NoFitFound == [][NoFit => pc' = "aborted"]_vars

----------------------------------------------------------------------------
(* C4 *)

SizeMessage == "max size needed larger than atlas size"

AreaMessage == "total area needed cannot fit in atlas size"

RECURSIVE PaddedArea(_, _)
PaddedArea(texs, pad) ==
    IF texs = <<>> THEN 0
    ELSE (Head(texs).rect.w + pad) * (Head(texs).rect.h + pad)
            + PaddedArea(Tail(texs), pad)

\* the summed padded area exceeds 0.85 * size * size
AreaExceeds == PaddedArea(textures, padding) * 100 > 85 * atlas_size * atlas_size

\* some texture of the list is wider or taller than the atlas once padded
Oversized(texs, size, pad) ==
    \E k \in 1..Len(texs) :
        texs[k].rect.w + pad > size \/ texs[k].rect.h + pad > size

\* pack's first assertion rejects the list
RejectedBySize(texs, size, pad) == ~SizeCheck(Measure(texs, Len(texs), pad), size)

Unregistered(w, h) == [rect |-> Rect(0, 0, w, h), name_index |-> 0, buffer_index |-> 0]

\* C4: pack aborts with the size message, with the list and the free spaces
\* as they were, exactly when some texture has w + padding > atlas_size or
\* h + padding > atlas_size, whatever the area; a texture with
\* w + padding = atlas_size is not rejected by this check (alone in an atlas
\* of that size it is rejected only for its height); a single 100x100
\* texture is rejected at atlas_size 50.
OversizedTexture ==
    [][ pc = "pack" =>
          /\ Oversized(textures, atlas_size, padding)
                <=> (pc' = "aborted" /\ err' = SizeMessage)
          /\ Oversized(textures, atlas_size, padding)
                => (textures' = textures /\ spaces' = spaces /\ qsort_order' = <<>>)
          /\ \A k \in TextureIndices :
                RejectedBySize(<<textures[k]>>, textures[k].rect.w + padding, padding)
                    <=> textures[k].rect.h > textures[k].rect.w
          /\ RejectedBySize(<<Unregistered(100, 100)>>, 50, 0) ]_vars

\* a run that the size assertion aborted although the area is within the
\* bound, one texture too wide and another exactly as wide as the atlas
OversizedTextureWitness ==
    /\ pc = "aborted"
    /\ err = SizeMessage
    /\ ~AreaExceeds
    /\ spaces = <<>>
    /\ \E k \in TextureIndices : textures[k].rect.w + padding > atlas_size
    /\ \E k \in TextureIndices : textures[k].rect.w + padding = atlas_size

----------------------------------------------------------------------------
(* C5 *)

\* pack aborted with the area message before any placement attempt
InsufficientSpace ==
    /\ pc' = "aborted"
    /\ err' = AreaMessage
    /\ textures' = textures
    /\ spaces' = spaces
    /\ qsort_order' = <<>>

\* C5 as stated: every list whose summed padded area exceeds 0.85 * size^2
\* makes pack fail with InsufficientSpace before any placement attempt, the
\* list not reordered and no x or y written.
AreaPreCheck == [][ pc = "pack" /\ AreaExceeds => InsufficientSpace ]_vars

\* C5 amended: every list whose summed padded area exceeds 0.85 * size^2 and
\* in which no texture is wider or taller than the atlas once padded makes
\* pack fail with InsufficientSpace before any placement attempt, the list
\* not reordered and no x or y written; a list that passes the size check
\* and whose area does not exceed the bound is not rejected.
AreaPreCheckAfterSize ==
    [][ pc = "pack" /\ ~Oversized(textures, atlas_size, padding) =>
          /\ AreaExceeds => InsufficientSpace
          /\ ~AreaExceeds => pc' = "place" ]_vars

\* a run that the area assertion aborted, every x and y still 0
AreaPreCheckWitness ==
    /\ pc = "aborted"
    /\ err = AreaMessage
    /\ AreaExceeds
    /\ ~Oversized(textures, atlas_size, padding)
    /\ \A k \in TextureIndices :
          /\ textures[k].rect.x = 0
          /\ textures[k].rect.y = 0
          /\ textures[k].name_index = k - 1

----------------------------------------------------------------------------
(* C6 *)

\* C6: for every texture of a pack run that returned normally, the region
\* the compositor writes, [x-expand, x+w+expand) x [y-expand, y+h+expand),
\* lies inside [0, size) x [0, size), and the compositor makes no access
\* outside the atlas bytes.
CompositorBounds ==
    /\ Packed => \A k \in TextureIndices : InAtlas(WriteRegion(textures[k]))
    /\ pc = "crashed" => atlas_bmp = NoAtlas

----------------------------------------------------------------------------
(* C7 *)

\* every placement is in bounds and no two placements overlap
PlacementsValid ==
    /\ atlas_expand >= 0
    /\ \A k \in TextureIndices : InAtlas(WriteRegion(textures[k]))
    /\ \A a, b \in TextureIndices :
          a # b => Disjoint(WriteRegion(textures[a]), WriteRegion(textures[b]))

\* the atlas pixel at offset (dx, dy) from the texture's corner is the source
\* pixel at (clamp(dx, 0, w-1), clamp(dy, 0, h-1))
PixelBlitted(t, dx, dy) ==
    \A c \in 0..(CHANNELS - 1) :
        AtlasByte(t.rect.x + dx, t.rect.y + dy, c)
            = SourceByte(t, ClampTo(dx, 0, t.rect.w - 1), ClampTo(dy, 0, t.rect.h - 1), c)

\* C7: given in-bounds, pairwise non-overlapping placements, after
\* compositing every atlas pixel at offset (dx, dy), -expand <= dx <=
\* w+expand-1 and -expand <= dy <= h+expand-1, of every texture equals the
\* source pixel at the clamped offset; with expand = 0 this is the exact
\* copy of the w x h source.
BlitCorrect ==
    Composited /\ PlacementsValid =>
        \A k \in TextureIndices :
            \A dx \in (-atlas_expand)..(textures[k].rect.w + atlas_expand - 1) :
                \A dy \in (-atlas_expand)..(textures[k].rect.h + atlas_expand - 1) :
                    PixelBlitted(textures[k], dx, dy)

Red == <<255, 0, 0, 255>>

AtlasPixel(x, y) == [c \in 1..CHANNELS |-> AtlasByte(x, y, c - 1)]

\* the instance of C7: expand = 2 and the 4x4 solid red texture at (2, 2)
\* give red at (0, 2) and (1, 2), and at the corner (0, 0)
BlitCorrectWitness ==
    /\ Composited
    /\ PlacementsValid
    /\ atlas_expand = 2
    /\ \E k \in TextureIndices :
          /\ textures[k].rect = Rect(2, 2, 4, 4)
          /\ \A c \in 0..(CHANNELS - 1) : SourceByte(textures[k], 0, 0, c) = Red[c + 1]
    /\ AtlasPixel(0, 2) = Red
    /\ AtlasPixel(1, 2) = Red
    /\ AtlasPixel(0, 0) = Red

----------------------------------------------------------------------------
(* C8 *)

----------------------------------------------------------------------------
(* C9 *)

\* the run on three images 8x16, 16x8, 8x8 in that order, atlas_size 32,
\* no expand, no border
ThreeTextures ==
    /\ atlas_size = 32
    /\ atlas_expand = 0
    /\ atlas_border = 0
    /\ [k \in 1..Len(images) |-> <<images[k].w, images[k].h>>]
           = << <<8, 16>>, <<16, 8>>, <<8, 8>> >>

EntryBox(e) == Box(e.x, e.y, e.x + e.w, e.y + e.h)

\* C9: the run on 8x16, 16x8, 8x8 at atlas_size 32, expand 0, border 0
\* passes both pre-checks, finds a space for every texture, leaves the three
\* rects pairwise disjoint and inside the atlas, and the metadata has w = 32,
\* h = 32, n = 3 and three entries with the source sizes, the first the
\* 8x16 texture at x = 0, y = 0.
ThreeTexturesPacked ==
    ThreeTextures =>
        /\ pc \notin {"aborted", "crashed"}
        /\ ~NoFit
        /\ Packed =>
              /\ \A k \in TextureIndices : InAtlas(Footprint(textures[k]))
              /\ \A a, b \in TextureIndices :
                    a # b => Disjoint(Footprint(textures[a]), Footprint(textures[b]))
        /\ pc = "done" =>
              /\ json.w = 32 /\ json.h = 32 /\ json.n = 3
              /\ Len(json.textures) = 3
              /\ \A k \in 1..3 :
                    \E e \in 1..3 :
                        /\ json.textures[e].n = names[k]
                        /\ json.textures[e].w = images[k].w
                        /\ json.textures[e].h = images[k].h
                        /\ InAtlas(EntryBox(json.textures[e]))
              /\ \A a, b \in 1..3 :
                    a # b => Disjoint(EntryBox(json.textures[a]), EntryBox(json.textures[b]))
              /\ json.textures[1] = [n |-> names[1], x |-> 0, y |-> 0, w |-> 8, h |-> 16]

\* the run of C9 has emitted its metadata
ThreeTexturesWitness ==
    /\ ThreeTextures
    /\ pc = "done"
    /\ json.n = 3
    /\ json.textures[1].h = 16

----------------------------------------------------------------------------
(* C10 *)

HeightNonIncreasing ==
    \A a, b \in TextureIndices :
        a < b => textures[a].rect.h >= textures[b].rect.h

\* textures of equal height are in the order of their registration
\* (buffer_index grows with every registration)
TiesInRegistrationOrder ==
    \A a, b \in TextureIndices :
        a < b /\ textures[a].rect.h = textures[b].rect.h
            => textures[a].buffer_index < textures[b].buffer_index

\* the list holds the registered textures, each once
SameTextures ==
    /\ Len(textures) = num_images
    /\ \A k \in 1..num_images :
          \E a \in TextureIndices :
              /\ textures[a].name_index = k - 1
              /\ textures[a].rect.w = images[k].w
              /\ textures[a].rect.h = images[k].h

----------------------------------------------------------------------------
(* C11 *)

\* the bytes of the staging buffer a texture owns
BufferLength(t) == t.rect.w * t.rect.h * CHANNELS

\* the textures are in registration order (before the sort)
Registering == pc \in {"register", "pack"}

\* C11: after registering t_1 .. t_n in order, the buffer offset of t_1 is
\* 0 and the offset of each next texture is the previous offset plus
\* w * h * 4, so the byte ranges are pairwise disjoint and cover
\* [0, buffer_index) without gaps, in insertion order; the sort moves the
\* textures and leaves the ranges disjoint.
BufferOffsetsPartition ==
    /\ Registering =>
          /\ textures # <<>> => textures[1].buffer_index = 0
          /\ \A k \in 1..(Len(textures) - 1) :
                textures[k + 1].buffer_index
                    = textures[k].buffer_index + BufferLength(textures[k])
          /\ textures # <<>> =>
                buffer_index = textures[Len(textures)].buffer_index
                                  + BufferLength(textures[Len(textures)])
          /\ Len(buffer) = buffer_index
    /\ \A a, b \in TextureIndices :
          a # b =>
              \/ textures[a].buffer_index + BufferLength(textures[a])
                    <= textures[b].buffer_index
              \/ textures[b].buffer_index + BufferLength(textures[b])
                    <= textures[a].buffer_index
    /\ \A a \in TextureIndices :
          textures[a].buffer_index + BufferLength(textures[a]) <= buffer_index

\* three textures of different byte lengths are registered
BufferOffsetsWitness ==
    /\ pc = "pack"
    /\ Len(textures) = 3
    /\ textures[2].buffer_index = 8
    /\ textures[3].buffer_index = 24
    /\ buffer_index = 28

----------------------------------------------------------------------------
(* C12 *)

SpaceBox(s) == Box(s.x, s.y, s.x + s.w, s.y + s.h)

\* pack is between its first free space and its return
Packing == pc \in {"place", "generate"}

----------------------------------------------------------------------------
(* C13 *)

\* C13: over a run that completes, rect.x and rect.y of every texture are
\* written exactly once, by pack when it places the texture: at no point
\* more than once, and once when the run is done.
PositionWrittenOnce ==
    /\ \A k \in 1..Len(xy_writes) : xy_writes[k] <= 1
    /\ pc = "done" =>
          /\ Len(xy_writes) = num_images
          /\ \A k \in 1..Len(xy_writes) : xy_writes[k] = 1

----------------------------------------------------------------------------
(* C14 *)

\* the options are in the range the claims are about
ValidConfig == atlas_size > 0 /\ atlas_expand >= 0 /\ atlas_border >= 0

\* C14 as stated: after pack returned, every texture has
\* x + w + 2*expand <= size and y + h + 2*expand <= size, for every
\* expand >= 0 and border >= 0.
ExpandMargin ==
    Packed /\ ValidConfig =>
        \A k \in TextureIndices :
            /\ textures[k].rect.x + textures[k].rect.w + 2 * atlas_expand <= atlas_size
            /\ textures[k].rect.y + textures[k].rect.h + 2 * atlas_expand <= atlas_size

\* C14 amended: after pack returned, every texture has
\* x + w + expand <= size and y + h + expand <= size, for every expand >= 0
\* and border >= 0 (x and y already lie behind the near margin, so one
\* margin of expand pixels is left to fit behind the image).
ExpandMarginBehind ==
    Packed /\ ValidConfig =>
        \A k \in TextureIndices :
            /\ textures[k].rect.x + textures[k].rect.w + atlas_expand <= atlas_size
            /\ textures[k].rect.y + textures[k].rect.h + atlas_expand <= atlas_size

\* a packed list with a margin in which a texture that pack placed has its
\* far margin end exactly at the edge of the atlas
ExpandMarginWitness ==
    /\ Packed
    /\ ValidConfig
    /\ atlas_expand > 0
    /\ \E k \in TextureIndices :
          /\ xy_writes[textures[k].name_index + 1] = 1
          /\ textures[k].rect.y + textures[k].rect.h + atlas_expand = atlas_size
          /\ textures[k].rect.y + textures[k].rect.h + 2 * atlas_expand > atlas_size

----------------------------------------------------------------------------
(* C15 *)

\* C15: a run configured with atlas_size <= 0, expand < 0 or border < 0 is
\* rejected before any texture is sorted or placed.
ConfigValidated ==
    ~ValidConfig => pc \notin {"place", "generate", "save", "done"}

----------------------------------------------------------------------------
(* C16 *)

\* the files of the directory that decode
Decodable == { k \in 1..Len(files) : files[k].image.data # NULL }

\* the file that is the n-th to decode
NthDecodable(n) ==
    CHOOSE k \in Decodable : Cardinality({ d \in Decodable : d <= k }) = n

NotEnoughMessage == "not enough images to pack"

\* C16: a file whose load fails is left out, the loaded images keep their
\* relative order at consecutive indices and are registered with these
\* indices, and packing proceeds if at least 3 images loaded; with fewer the
\* run aborts before any texture is registered or packed.
DecodeFailureSkipped ==
    pc # "scan" =>
        /\ Len(images) = Cardinality(Decodable)
        /\ Len(names) = Cardinality(Decodable)
        /\ \A n \in 1..Len(images) :
              /\ images[n] = files[NthDecodable(n)].image
              /\ names[n] = files[NthDecodable(n)].name
        /\ Registering =>
              \A m \in TextureIndices :
                  /\ textures[m].name_index = m - 1
                  /\ textures[m].rect = Rect(0, 0, images[m].w, images[m].h)
        /\ Cardinality(Decodable) < MinImages =>
              /\ pc \in {"load", "aborted"}
              /\ pc = "aborted" => err = NotEnoughMessage
              /\ textures = <<>> /\ spaces = <<>> /\ buffer = <<>>
        /\ Cardinality(Decodable) >= MinImages => err # NotEnoughMessage

\* a run that completed on the three images left of a directory whose first
\* file did not decode
DecodeFailureWitness ==
    /\ pc = "done"
    /\ files[1].image.data = NULL
    /\ Len(files) = Len(images) + 1
    /\ names = <<file_names[2], file_names[3], file_names[4]>>
    /\ json.n = 3
    /\ json.textures[1].n = file_names[2]

----------------------------------------------------------------------------
(* Vocabulary of the placement steps *)

\* pack is about to process the texture at index i
Placing == pc = "place" /\ i < num_images

\* the padded width and height of the texture about to be processed
PaddedW == At(textures, i).rect.w + padding

PaddedH == At(textures, i).rect.h + padding

\* the free spaces, by their place in the list, that the texture fits
FittingSpaces ==
    { s \in 1..Len(spaces) : PaddedW <= spaces[s].w /\ PaddedH <= spaces[s].h }

\* the last of them in the list
Chosen == CHOOSE s \in FittingSpaces : \A o \in FittingSpaces : o <= s

\* the step processes the texture at i and finds it a space
Placed == Placing /\ FittingSpaces # {} /\ i' = i + 1

\* every space but the chosen one that is still in the list is as it was
OthersUnchanged ==
    \A s \in 1..Len(spaces) :
        s # Chosen /\ s <= Len(spaces') => spaces'[s] = spaces[s]

----------------------------------------------------------------------------
(* C17 *)

\* C17: for each texture pack takes the free space of the highest index
\* that fits, puts the texture at (space.x + expand, space.y + expand) of
\* that space as it was before the update, changes only that space, with at
\* most one entry appended or removed, and changes no other texture.
ReverseScanFirstFit ==
    [][ Placed =>
          /\ textures'[i + 1].rect =
                Rect(spaces[Chosen].x + atlas_expand, spaces[Chosen].y + atlas_expand,
                     textures[i + 1].rect.w, textures[i + 1].rect.h)
          /\ \A t \in TextureIndices : t # i + 1 => textures'[t] = textures[t]
          /\ Len(textures') = Len(textures)
          /\ Len(spaces') \in {Len(spaces) - 1, Len(spaces), Len(spaces) + 1}
          /\ \A s \in 1..Len(spaces) :
                s < Chosen => spaces'[s] = spaces[s]
          /\ OthersUnchanged ]_vars

\* the third texture, 2x1, went to {2,1,2,1}, the higher of the two spaces
\* that fit it, and {0,2,4,2}, which fit it as well, is as it was
ReverseScanWitness ==
    /\ pc = "generate"
    /\ atlas_size = 4 /\ atlas_expand = 0 /\ atlas_border = 0
    /\ Len(textures) = 3
    /\ textures[3].rect.x = 2
    /\ textures[3].rect.y = 1
    /\ textures[3].rect.w = 2
    /\ spaces[1] = Rect(0, 2, 4, 2)

----------------------------------------------------------------------------
(* C18 *)

\* C18: when the padded texture is strictly narrower and strictly shorter
\* than the chosen space {x, y, W, H}, pack appends {x + w, y, W - w, h} at
\* the end of the list and replaces the chosen entry by {x, y + h, W, H - h}:
\* the list grows by one and no other entry changes.
SplitCase ==
    [][ Placed /\ PaddedW < spaces[Chosen].w /\ PaddedH < spaces[Chosen].h =>
          LET space == spaces[Chosen]
          IN  /\ Len(spaces') = Len(spaces) + 1
              /\ spaces'[Len(spaces) + 1] =
                    Rect(space.x + PaddedW, space.y, space.w - PaddedW, PaddedH)
              /\ spaces'[Chosen] =
                    Rect(space.x, space.y + PaddedH, space.w, space.h - PaddedH)
              /\ OthersUnchanged ]_vars

\* the first texture split the whole atlas: the strip below it is the first
\* entry and the box to its right, as tall as the texture, the second
SplitCaseWitness ==
    /\ pc = "place"
    /\ i = 1
    /\ Len(spaces) = 2
    /\ LET w == textures[1].rect.w + padding
           h == textures[1].rect.h + padding
       IN  /\ w < atlas_size /\ h < atlas_size
           /\ spaces[1] = Rect(0, h, atlas_size, atlas_size - h)
           /\ spaces[2] = Rect(w, 0, atlas_size - w, h)

----------------------------------------------------------------------------
(* C19 *)

\* C19: when the padded texture has the width and the height of the chosen
\* space, the list gets one shorter: a chosen space that was not the last is
\* overwritten by the former last entry, a chosen space that was the last is
\* dropped, and every other remaining entry keeps its index and value.
ExactFit ==
    [][ Placed /\ PaddedW = spaces[Chosen].w /\ PaddedH = spaces[Chosen].h =>
          /\ Len(spaces') = Len(spaces) - 1
          /\ Chosen < Len(spaces) => spaces'[Chosen] = spaces[Len(spaces)]
          /\ OthersUnchanged ]_vars

\* the third texture, 2x1, filled {2,1,2,1}, the second of three spaces, and
\* the former last space {3,0,1,1} took its place
ExactFitWitness ==
    /\ pc = "generate"
    /\ atlas_size = 4 /\ atlas_expand = 0 /\ atlas_border = 0
    /\ Len(textures) = 3
    /\ textures[2].rect = Rect(2, 0, 1, 1)
    /\ textures[3].rect = Rect(2, 1, 2, 1)
    /\ spaces = << Rect(0, 2, 4, 2), Rect(3, 0, 1, 1) >>

----------------------------------------------------------------------------
(* C20 *)

\* C20: when the padded texture matches the chosen space {x, y, W, H} in one
\* dimension only, the list keeps its length: with h = H and w < W the entry
\* becomes {x + w, y, W - w, H}, with w = W and h < H it becomes
\* {x, y + h, W, H - h}, and no other entry changes.
OneDimensionMatch ==
    [][ Placed =>
          LET space == spaces[Chosen]
          IN  /\ PaddedH = space.h /\ PaddedW < space.w =>
                    spaces' = [spaces EXCEPT ![Chosen] =
                        Rect(space.x + PaddedW, space.y, space.w - PaddedW, space.h)]
              /\ PaddedW = space.w /\ PaddedH < space.h =>
                    spaces' = [spaces EXCEPT ![Chosen] =
                        Rect(space.x, space.y + PaddedH, space.w, space.h - PaddedH)] ]_vars

\* the second texture, as tall as the strip {0,3,6,3} below the first and
\* narrower, moved the strip's left edge to the right and left the list at
\* two entries
OneDimensionMatchWitness ==
    /\ pc = "place"
    /\ i = 2
    /\ atlas_size = 6 /\ atlas_expand = 1 /\ atlas_border = 0
    /\ textures[2].rect = Rect(1, 4, 2, 1)
    /\ spaces = << Rect(4, 3, 2, 3), Rect(3, 0, 3, 3) >>

----------------------------------------------------------------------------
(* C21 *)

\* the pixel (x, y) lies in the box
Covers(p, x, y) == p.x0 <= x /\ x < p.x1 /\ p.y0 <= y /\ y < p.y1

AtlasPixels == (0..(atlas_size - 1)) \X (0..(atlas_size - 1))

Transparent == <<0, 0, 0, 0>>

\* every texture of the list found a space in pack
AllPlaced == \A k \in 1..Len(xy_writes) : xy_writes[k] = 1

\* no texture's rect grown by expand holds the pixel
Uncovered(x, y) ==
    \A k \in TextureIndices : ~Covers(WriteRegion(textures[k]), x, y)

\* C21: after compositing every atlas pixel that lies outside every
\* texture's rect grown by expand on each side is all-zero RGBA, as the
\* cleared atlas was; with expand = 0 no pixel outside a texture's own
\* w x h rect is written.
CompositorFrame ==
    Composited =>
        \A p \in AtlasPixels :
            Uncovered(p[1], p[2]) => AtlasPixel(p[1], p[2]) = Transparent

\* the same holds in the runs with valid options in which every texture found a space
CompositorFramePlaced == ValidConfig /\ AllPlaced => CompositorFrame

----------------------------------------------------------------------------
(* C22 *)

\* the run on two 6x6 images and one 1x1 image at atlas_size 10, no expand,
\* no border
SixSixOne ==
    /\ atlas_size = 10
    /\ atlas_expand = 0
    /\ atlas_border = 0
    /\ [k \in 1..Len(files) |-> <<files[k].image.w, files[k].image.h>>]
           = << <<6, 6>>, <<6, 6>>, <<1, 1>> >>

\* C22: the pre-checks do not guarantee a fit. The list 6x6, 6x6, 1x1 at
\* size 10 passes both pre-checks (every padded side <= size, summed padded
\* area 73 <= 85) and pack's single pass reaches the second 6x6 texture with
\* no free space that fits it; a step of pack that finds no space changes
\* no free space and no texture, and no step of pack changes the x, y of a
\* texture placed before.
PreChecksNoGuarantee ==
    [][ /\ SixSixOne /\ pc = "pack" =>
              /\ ~Oversized(textures, atlas_size, padding)
              /\ ~AreaExceeds
              /\ pc' = "place"
        /\ SixSixOne /\ pc = "place" /\ i = 0 =>
              /\ ~NoFit
              /\ pc' = "place" /\ NoFit'
        /\ NoFit => textures' = textures /\ spaces' = spaces
        /\ pc = "place" =>
              \A k \in TextureIndices : k < i + 1 => textures'[k] = textures[k] ]_vars

\* pack returned in the run of C22: the first 6x6 texture is at (0, 0), the
\* second found no space and was never given a position, the 1x1 texture
\* went to the space right of the first
PreChecksWitness ==
    /\ SixSixOne
    /\ pc = "generate"
    /\ textures[1].rect = Rect(0, 0, 6, 6)
    /\ xy_writes[textures[1].name_index + 1] = 1
    /\ textures[2].rect.w = 6
    /\ xy_writes[textures[2].name_index + 1] = 0
    /\ textures[3].rect = Rect(6, 0, 1, 1)

----------------------------------------------------------------------------
(* C23 *)

\* pack is over: it returned to main, an assertion aborted the process, or
\* the process faulted
PackEnded == pc \in {"generate", "save", "done", "aborted", "crashed"}

\* C23: for every texture list and configuration pack reaches its end: each
\* iteration of the outer loop takes the next texture, the index never
\* passes the number of textures, and from its entry pack gets to its
\* return or to the end of the process.
PackTerminates ==
    /\ [][ pc = "place" => i' = i + 1 \/ pc' = "aborted" ]_vars
    /\ [](pc = "place" => i < num_images)
    /\ (pc = "pack" ~> PackEnded)

\* pack returned after an iteration for each of its textures, one of which
\* found no space after the scan of every free space
PackTerminatesWitness ==
    /\ pc = "generate"
    /\ i = num_images
    /\ num_images = MaxTextures
    /\ \E k \in 1..Len(xy_writes) : xy_writes[k] = 0
    /\ Len(spaces) >= 2

----------------------------------------------------------------------------
(* The C++ packer: atlas::atlas, atlas::add_texture, atlas::pack (main.cpp) *)

\* main.cpp:162-169
atlas_new(size, expand, border) ==
    [m_size |-> size, m_expand |-> expand, m_border |-> border,
     m_textures |-> <<>>, m_buffer_index |-> 0, spaces |-> <<>>, aborted |-> FALSE]

\* main.cpp:182-195; log_assert (main.hpp:52-62) aborts the process
atlas_add_texture(a, image) ==
    IF a.aborted THEN a
    ELSE IF ~(image.data # NULL) THEN [a EXCEPT !.aborted = TRUE]
    ELSE IF ~(image.w < a.m_size /\ image.h < a.m_size) THEN [a EXCEPT !.aborted = TRUE]
    ELSE [a EXCEPT !.m_textures =
                        Append(@, [rect |-> Rect(0, 0, image.w, image.h),
                                   buffer_index |-> a.m_buffer_index]),
                   !.m_buffer_index = @ + image.w * image.h * CHANNELS]

\* main.cpp:530-535: add_texture for every loaded image, in order
RECURSIVE atlas_add_textures(_, _)
atlas_add_textures(a, imgs) ==
    IF imgs = <<>> THEN a
    ELSE atlas_add_textures(atlas_add_texture(a, Head(imgs)), Tail(imgs))

\* main.cpp:203-214
RECURSIVE atlas_measure(_, _)
atlas_measure(texs, pad) ==
    IF texs = <<>> THEN [area |-> 0, max_w |-> 0, max_h |-> 0]
    ELSE LET rest == atlas_measure(Tail(texs), pad)
             rect == Head(texs).rect
         IN  [area |-> rest.area + (rect.w + pad) * (rect.h + pad),
              max_w |-> Max(rest.max_w, rect.w + pad),
              max_h |-> Max(rest.max_h, rect.h + pad)]

\* main.cpp:225-228: the orders std::sort may leave the list in under the
\* comparison a.rect.h > b.rect.h
std_sort_outcomes(texs) ==
    { p \in Permutations1(Len(texs)) :
        \A a, b \in 1..Len(texs) : a < b => ~(texs[p[b]].rect.h > texs[p[a]].rect.h) }

\* the order of the C sort when there is one, so that equal heights come in
\* the same order in both programs
std_sort_order(texs, c_order) ==
    IF c_order \in std_sort_outcomes(texs) THEN c_order
    ELSE CHOOSE p \in std_sort_outcomes(texs) : TRUE

\* main.cpp:237-246: the index of the first space, from the back, that the
\* w x h box is not too large for; -1 when there is none
RECURSIVE atlas_scan(_, _, _, _)
atlas_scan(spcs, k, w, h) ==
    IF ~(k >= 0) THEN -1
    ELSE IF w > spcs[k + 1].w \/ h > spcs[k + 1].h THEN atlas_scan(spcs, k - 1, w, h)
    ELSE k

\* main.cpp:257-313: the vector of spaces after the box took the top-left of spaces[k]
atlas_update(spcs, k, w, h) ==
    LET space == spcs[k + 1]
    IN  IF w = space.w /\ h = space.h
        THEN \* last = spaces.back(); spaces.pop_back(); if (i < spaces.size()) spaces[i] = last
             LET last == spcs[Len(spcs)]
                 popped == SubSeq(spcs, 1, Len(spcs) - 1)
             IN  IF k < Len(popped) THEN [popped EXCEPT ![k + 1] = last] ELSE popped
        ELSE IF h = space.h
        THEN [spcs EXCEPT ![k + 1] = [space EXCEPT !.x = @ + w, !.w = @ - w]]
        ELSE IF w = space.w
        THEN [spcs EXCEPT ![k + 1] = [space EXCEPT !.y = @ + h, !.h = @ - h]]
        ELSE \* spaces.push_back(...) first, then spaces[i] = space
             [Append(spcs, Rect(space.x + w, space.y, space.w - w, h))
                 EXCEPT ![k + 1] = [space EXCEPT !.y = @ + h, !.h = @ - h]]

\* main.cpp:230-317: the loop over the sorted textures, from the t-th on
RECURSIVE atlas_pack_loop(_, _)
atlas_pack_loop(a, t) ==
    IF a.aborted \/ t > Len(a.m_textures) THEN a
    ELSE LET rect == a.m_textures[t].rect
             pad == a.m_expand * 2 + a.m_border
             w == rect.w + pad
             h == rect.h + pad
             k == atlas_scan(a.spaces, Len(a.spaces) - 1, w, h)
         IN  IF ~(rect.w < a.m_size /\ rect.h < a.m_size)
             THEN [a EXCEPT !.aborted = TRUE]
             ELSE IF k < 0 THEN atlas_pack_loop(a, t + 1)
             ELSE atlas_pack_loop(
                      [a EXCEPT !.m_textures[t].rect.x = a.spaces[k + 1].x + a.m_expand,
                                !.m_textures[t].rect.y = a.spaces[k + 1].y + a.m_expand,
                                !.spaces = atlas_update(a.spaces, k, w, h)],
                      t + 1)

\* main.cpp:201-318
atlas_pack(a, c_order) ==
    IF a.aborted THEN a
    ELSE LET m == atlas_measure(a.m_textures, a.m_expand * 2 + a.m_border)
             order == std_sort_order(a.m_textures, c_order)
         IN  IF ~(m.max_w <= a.m_size /\ m.max_h <= a.m_size)
             THEN [a EXCEPT !.aborted = TRUE]
             ELSE IF ~(m.area * 100 <= a.m_size * a.m_size * 85)
             THEN [a EXCEPT !.aborted = TRUE]
             ELSE atlas_pack_loop(
                      [a EXCEPT !.spaces = <<Rect(0, 0, a.m_size, a.m_size)>>,
                                !.m_textures = [t \in 1..Len(a.m_textures) |->
                                                   a.m_textures[order[t]]]],
                      1)

\* the C++ program on the images and options of the run
CppRun ==
    atlas_pack(atlas_add_textures(atlas_new(atlas_size, atlas_expand, atlas_border),
                                  images),
               qsort_order)

----------------------------------------------------------------------------
(* C24 *)

\* the assertions of registration and of pack
PackerMessages ==
    { "pixel data too large for atlas", "could not read texture data",
      SizeMessage, AreaMessage, "texture larger than maximum size" }

RectsOf(texs) == [k \in 1..Len(texs) |-> texs[k].rect]

\* C24: the C and the C++ packer accept or reject the same inputs, and when
\* they accept they end with the same x, y for every texture and the same
\* list of free spaces, given the same order among equal heights.
PackersEquivalent ==
    /\ pc = "generate" =>
          /\ ~CppRun.aborted
          /\ RectsOf(CppRun.m_textures) = RectsOf(textures)
          /\ CppRun.spaces = spaces
    /\ pc = "aborted" /\ err \in PackerMessages => CppRun.aborted

\* no image is as wide or as tall as the atlas
BelowSize == \A k \in 1..Len(images) : images[k].w < atlas_size /\ images[k].h < atlas_size

\* the two packers agree on the lists in which no image is as wide or as tall
\* as the atlas
PackersEquivalentBelowSize == BelowSize => PackersEquivalent

----------------------------------------------------------------------------
(* C25 *)

\* what of a texture is not its position
Fields(t) ==
    [w |-> t.rect.w, h |-> t.rect.h, name_index |-> t.name_index,
     buffer_index |-> t.buffer_index]

\* the two lists hold the same field tuples the same number of times
SameFields(texs, others) ==
    /\ Len(texs) = Len(others)
    /\ \E p \in Permutations1(Len(texs)) :
          \A k \in 1..Len(texs) : Fields(others[k]) = Fields(texs[p[k]])

\* the offset in the staging buffer that registration gave the image of index n
RECURSIVE OffsetOf(_)
OffsetOf(n) ==
    IF n = 0 THEN 0
    ELSE OffsetOf(n - 1) + images[n].w * images[n].h * CHANNELS

\* the texture has the size and the offset of the image its name_index names
OwnFields(t) ==
    /\ t.rect.w = images[t.name_index + 1].w
    /\ t.rect.h = images[t.name_index + 1].h
    /\ t.buffer_index = OffsetOf(t.name_index)

\* C25: pack only reorders the textures and writes positions. Every step of
\* pack leaves the multiset of (w, h, name_index, buffer_index) as it was,
\* every texture keeps the w, h and buffer_index it was registered with
\* under its name_index through the sort, a placement changes nothing but
\* the x and y of the one texture it places, and the compositor changes no
\* field of any texture.
PackOnlyReorders ==
    [][ /\ pc \in {"pack", "place"} =>
              /\ SameFields(textures, textures')
              /\ \A k \in 1..Len(textures') : OwnFields(textures'[k])
        /\ pc = "place" =>
              \A k \in TextureIndices :
                  /\ Fields(textures'[k]) = Fields(textures[k])
                  /\ k # i + 1 => textures'[k] = textures[k]
        /\ pc \in {"generate", "save"} => textures' = textures ]_vars

\* a run that ended after a sort that moved the last registered texture to
\* the front, with every texture placed
PackOnlyReordersWitness ==
    /\ pc = "done"
    /\ AllPlaced
    /\ textures[1].name_index = Len(textures) - 1
    /\ textures[1].buffer_index > 0
    /\ \E k \in TextureIndices : textures[k].rect.x > 0

----------------------------------------------------------------------------
(* C26 *)

\* C26: in pack the array of free spaces has len entries; for every list of
\* len >= 1 textures that passed the pre-checks the number n of free spaces
\* never exceeds len, so that every index read or written in spaces[] is
\* one of 0 .. len-1, and the process does not fault.
SpacesCapacity ==
    /\ Packing => Len(spaces) <= num_images
    /\ pc = "crashed" => Len(spaces) <= num_images

----------------------------------------------------------------------------
(* C27 *)

\* no image is wider or taller than the atlas
WithinAtlas ==
    \A k \in 1..Len(images) : images[k].w <= atlas_size /\ images[k].h <= atlas_size

\* C27: the staging buffer has atlas_size * atlas_size * 4 bytes; for every
\* list of images none of which is wider or taller than the atlas,
\* buffer_index <= atlas_size * atlas_size * 4 after every add_texture call:
\* no registration copies bytes past the end of the staging buffer.
StagingCapacity ==
    WithinAtlas =>
        /\ buffer_index <= BufferCapacity
        /\ Len(buffer) <= BufferCapacity

----------------------------------------------------------------------------
(* C28 *)

RECURSIVE FreeArea(_)
FreeArea(spcs) ==
    IF spcs = <<>> THEN 0
    ELSE Head(spcs).w * Head(spcs).h + FreeArea(Tail(spcs))

\* the textures pack has processed so far
Processed == SubSeq(textures, 1, i)

\* each of them found a space
ProcessedPlaced ==
    \A k \in 1..i : xy_writes[textures[k].name_index + 1] = 1

\* C28: in every state of pack in which each texture processed so far found
\* a fit, with expand >= 0 and border >= 0, the areas of the free spaces
\* and the padded areas (w + padding) * (h + padding) of the textures placed
\* so far add up to size * size, and every free space lies inside
\* [0, size] x [0, size].
AreaConservation ==
    Packing /\ ValidConfig /\ ProcessedPlaced =>
        /\ FreeArea(spaces) + PaddedArea(Processed, padding) = atlas_size * atlas_size
        /\ \A s \in 1..Len(spaces) : InAtlas(SpaceBox(spaces[s]))

\* pack returned with every texture placed, with padding, and with two or
\* more free spaces left that together with the padded textures fill the atlas
AreaConservationWitness ==
    /\ pc = "generate"
    /\ ValidConfig
    /\ AllPlaced
    /\ padding > 0
    /\ Len(spaces) >= 2
    /\ FreeArea(spaces) > 0
    /\ FreeArea(spaces) + PaddedArea(textures, padding) = atlas_size * atlas_size

----------------------------------------------------------------------------
(* C29 *)

\* the boxes are at least `gap` apart along the x axis or along the y axis
Separated(p, q, gap) ==
    \/ p.x1 + gap <= q.x0
    \/ q.x1 + gap <= p.x0
    \/ p.y1 + gap <= q.y0
    \/ q.y1 + gap <= p.y0

\* C29: after a pack in which every texture found a fit, with expand >= 0
\* and border >= 0, the rects of any two distinct textures, grown by expand
\* on all four sides, are at least border pixels apart along the x axis or
\* along the y axis.
BorderGap ==
    Packed /\ ValidConfig /\ AllPlaced =>
        \A a, b \in TextureIndices :
            a # b => Separated(WriteRegion(textures[a]), WriteRegion(textures[b]),
                               atlas_border)

\* a packed list with a margin and a border in which the grown rects of two
\* textures of the same row are exactly border pixels apart
BorderGapWitness ==
    /\ Packed
    /\ ValidConfig
    /\ AllPlaced
    /\ atlas_border > 0
    /\ atlas_expand > 0
    /\ \E a, b \in TextureIndices :
          /\ textures[a].rect.y = textures[b].rect.y
          /\ WriteRegion(textures[a]).x1 + atlas_border = WriteRegion(textures[b]).x0

----------------------------------------------------------------------------
(* C30 *)

SetPixelsMessage == "new pixels cannot be larger than image"

\* C30: with expand = 0 and border >= 0, for every texture of every run in
\* which pack returned, the assertion of blocs__set_pixels,
\* dst.x + dst.w <= image.w and dst.y + dst.h <= image.h, holds when
\* generate_atlas blits the texture: compositing never aborts.
SetPixelsAssertion ==
    atlas_expand = 0 /\ atlas_border >= 0 =>
        /\ Packed =>
              \A k \in TextureIndices :
                  SetPixelsCheck(atlas_size, atlas_size, textures[k].rect)
        /\ err # SetPixelsMessage

\* the compositor returned, without a margin, after the blit of a texture
\* that ends at the right edge of the atlas
SetPixelsAssertionWitness ==
    /\ Composited
    /\ atlas_expand = 0
    /\ atlas_border >= 0
    /\ \E k \in TextureIndices :
          /\ textures[k].rect.x > 0
          /\ textures[k].rect.x + textures[k].rect.w = atlas_size
          /\ AtlasPixel(atlas_size - 1, textures[k].rect.y) # Transparent

====
